---- MODULE Spec2Model ----
(***************************************************************************)
(* LossPreventionSystem (utils/loss_prevention.py): the risk parameters    *)
(* of one instance and the operations on it.                               *)
(*                                                                         *)
(* Numbers are the exact rationals <<n, d>> (d > 0, lowest terms); the     *)
(* rounding of Python's binary floats is not modelled.  A Python None is   *)
(* the pair <<0, 0>>, NaN the pair <<1, 0>>, +infinity the pair <<2, 0>>.  *)
(***************************************************************************)
EXTENDS Integers, Sequences, FiniteSets, TLC

VARIABLES params, op, args, result, raised, pos, thr, commits

vars == <<params, op, args, result, raised, pos, thr, commits>>

---------------------------------------------------------------------------
(* Arithmetic of the values the methods compute with.                      *)

RECURSIVE GCD(_, _)
GCD(a, b) == IF b = 0 THEN a ELSE GCD(b, a % b)

Abs(x) == IF x < 0 THEN -x ELSE x

Norm(n, d) ==
    LET g == GCD(Abs(n), Abs(d))
        s == IF d < 0 THEN -1 ELSE 1
    IN  <<(s * n) \div g, (s * d) \div g>>

R(n) == <<n, 1>>

None == <<0, 0>>

\* float('nan') and float('inf')
NaN == <<1, 0>>

Inf == <<2, 0>>

IsNone(x) == x = None

IsNum(x) == x[2] > 0

RNeg(a) == <<-a[1], a[2]>>

RAdd(a, b) ==
    LET g == GCD(a[2], b[2])
    IN  Norm(a[1] * (b[2] \div g) + b[1] * (a[2] \div g), (a[2] \div g) * b[2])

RSub(a, b) == RAdd(a, RNeg(b))

RMul(a, b) ==
    LET g1 == GCD(Abs(a[1]), b[2])
        g2 == GCD(Abs(b[1]), a[2])
    IN  Norm((a[1] \div g1) * (b[1] \div g2), (a[2] \div g2) * (b[2] \div g1))

\* a / b for b # 0; the callers test b = 0 first, where Python raises
RDiv(a, b) == RMul(a, Norm(b[2], b[1]))

RLt(a, b) == a[1] * b[2] < b[1] * a[2]

RLe(a, b) == a[1] * b[2] <= b[1] * a[2]

RAbs(a) == <<Abs(a[1]), a[2]>>

\* Python's min(a, b): b only when b < a
RMin(a, b) == IF RLt(b, a) THEN b ELSE a

IsZero(a) == a[1] = 0

---------------------------------------------------------------------------
(* LossPreventionSystem.__init__: the default risk parameters.             *)

Defaults ==
    [max_position_size_pct  |-> R(5),
     max_risk_per_trade_pct |-> R(2),
     max_daily_loss_pct     |-> R(5),
     max_drawdown_pct       |-> R(15),
     trailing_stop_pct      |-> R(2),
     volatility_adjustment  |-> TRUE,
     correlation_filter     |-> TRUE,
     max_open_positions     |-> 3]

\* what a method does: the instance afterwards, the value returned, the
\* exception raised ("" when it returns)
Returns(self, v) == [self |-> self, ret |-> v, raised |-> ""]

Raises(self, e) == [self |-> self, ret |-> None, raised |-> e]

---------------------------------------------------------------------------
\* set_risk_parameters: kw is the keyword dictionary of the call, a function
\* from the names given to their values.

Given(kw, name) == name \in DOMAIN kw

\* the method with the max_drawdown_pct branch reading the key of the branch
\* above it
set_risk_parameters_wrong_key(self, kw) ==
    Returns(
      [max_position_size_pct  |-> IF Given(kw, "max_position_size_pct")
                                  THEN kw.max_position_size_pct
                                  ELSE self.max_position_size_pct,
       max_risk_per_trade_pct |-> IF Given(kw, "max_risk_per_trade_pct")
                                  THEN kw.max_risk_per_trade_pct
                                  ELSE self.max_risk_per_trade_pct,
       max_daily_loss_pct     |-> IF Given(kw, "max_daily_loss_pct")
                                  THEN kw.max_daily_loss_pct
                                  ELSE self.max_daily_loss_pct,
       max_drawdown_pct       |-> IF Given(kw, "max_daily_loss_pct")
                                  THEN kw.max_daily_loss_pct
                                  ELSE self.max_drawdown_pct,
       trailing_stop_pct      |-> IF Given(kw, "trailing_stop_pct")
                                  THEN kw.trailing_stop_pct
                                  ELSE self.trailing_stop_pct,
       volatility_adjustment  |-> IF Given(kw, "volatility_adjustment")
                                  THEN kw.volatility_adjustment
                                  ELSE self.volatility_adjustment,
       correlation_filter     |-> IF Given(kw, "correlation_filter")
                                  THEN kw.correlation_filter
                                  ELSE self.correlation_filter,
       max_open_positions     |-> IF Given(kw, "max_open_positions")
                                  THEN kw.max_open_positions
                                  ELSE self.max_open_positions],
      None)

set_risk_parameters(self, kw) ==
    Returns(
      [max_position_size_pct  |-> IF Given(kw, "max_position_size_pct")
                                  THEN kw.max_position_size_pct
                                  ELSE self.max_position_size_pct,
       max_risk_per_trade_pct |-> IF Given(kw, "max_risk_per_trade_pct")
                                  THEN kw.max_risk_per_trade_pct
                                  ELSE self.max_risk_per_trade_pct,
       max_daily_loss_pct     |-> IF Given(kw, "max_daily_loss_pct")
                                  THEN kw.max_daily_loss_pct
                                  ELSE self.max_daily_loss_pct,
       max_drawdown_pct       |-> IF Given(kw, "max_drawdown_pct")
                                  THEN kw.max_drawdown_pct
                                  ELSE self.max_drawdown_pct,
       trailing_stop_pct      |-> IF Given(kw, "trailing_stop_pct")
                                  THEN kw.trailing_stop_pct
                                  ELSE self.trailing_stop_pct,
       volatility_adjustment  |-> IF Given(kw, "volatility_adjustment")
                                  THEN kw.volatility_adjustment
                                  ELSE self.volatility_adjustment,
       correlation_filter     |-> IF Given(kw, "correlation_filter")
                                  THEN kw.correlation_filter
                                  ELSE self.correlation_filter,
       max_open_positions     |-> IF Given(kw, "max_open_positions")
                                  THEN kw.max_open_positions
                                  ELSE self.max_open_positions],
      None)

---------------------------------------------------------------------------
\* calculate_position_size(account_balance, entry_price, stop_loss,
\* volatility=None)

\* the method without its "if risk_per_unit == 0: return 0"
calculate_position_size_unguarded(self, account_balance, entry_price, stop_loss, volatility) ==
    LET risk_amount   == RMul(account_balance,
                              RDiv(self.max_risk_per_trade_pct, R(100)))
        risk_per_unit == RAbs(RSub(entry_price, stop_loss))
        raw_size      == RDiv(risk_amount, risk_per_unit)
        adjust        == self.volatility_adjustment /\ ~IsNone(volatility)
        denominator   == RAdd(R(1), volatility)
        position_size == IF adjust
                         THEN RMul(raw_size, RDiv(R(1), denominator))
                         ELSE raw_size
        max_position_size ==
            RDiv(RMul(account_balance,
                      RDiv(self.max_position_size_pct, R(100))),
                 entry_price)
    IN  IF IsZero(risk_per_unit) THEN Raises(self, "ZeroDivisionError")
        ELSE IF adjust /\ IsZero(denominator)
             THEN Raises(self, "ZeroDivisionError")
        ELSE IF IsZero(entry_price) THEN Raises(self, "ZeroDivisionError")
        ELSE Returns(self, RMin(position_size, max_position_size))

\* the method with the cap applied before the volatility adjustment
calculate_position_size_cap_first(self, account_balance, entry_price, stop_loss, volatility) ==
    LET risk_amount   == RMul(account_balance,
                              RDiv(self.max_risk_per_trade_pct, R(100)))
        risk_per_unit == RAbs(RSub(entry_price, stop_loss))
        raw_size      == RDiv(risk_amount, risk_per_unit)
        adjust        == self.volatility_adjustment /\ ~IsNone(volatility)
        denominator   == RAdd(R(1), volatility)
        max_position_size ==
            RDiv(RMul(account_balance,
                      RDiv(self.max_position_size_pct, R(100))),
                 entry_price)
        capped        == RMin(raw_size, max_position_size)
    IN  IF IsZero(risk_per_unit) THEN Returns(self, R(0))
        ELSE IF adjust /\ IsZero(denominator)
             THEN Raises(self, "ZeroDivisionError")
        ELSE IF IsZero(entry_price) THEN Raises(self, "ZeroDivisionError")
        ELSE Returns(self, IF adjust
                           THEN RMul(capped, RDiv(R(1), denominator))
                           ELSE capped)

calculate_position_size(self, account_balance, entry_price, stop_loss, volatility) ==
    LET risk_amount   == RMul(account_balance,
                              RDiv(self.max_risk_per_trade_pct, R(100)))
        risk_per_unit == RAbs(RSub(entry_price, stop_loss))
        raw_size      == RDiv(risk_amount, risk_per_unit)
        adjust        == self.volatility_adjustment /\ ~IsNone(volatility)
        denominator   == RAdd(R(1), volatility)
        position_size == IF adjust
                         THEN RMul(raw_size, RDiv(R(1), denominator))
                         ELSE raw_size
        max_position_size ==
            RDiv(RMul(account_balance,
                      RDiv(self.max_position_size_pct, R(100))),
                 entry_price)
    IN  IF IsZero(risk_per_unit) THEN Returns(self, R(0))
        ELSE IF adjust /\ IsZero(denominator)
             THEN Raises(self, "ZeroDivisionError")
        ELSE IF IsZero(entry_price) THEN Raises(self, "ZeroDivisionError")
        ELSE Returns(self, RMin(position_size, max_position_size))

---------------------------------------------------------------------------
\* calculate_stop_loss(entry_price, direction, atr=None, fixed_pct=None)

DefaultStopPct == 5

\* the method with its first two branches in the other order: atr before
\* fixed_pct
calculate_stop_loss_atr_first(self, entry_price, direction, atr, fixed_pct) ==
    LET stop_pct == IF ~IsNone(atr)
                    THEN RMul(RDiv(RMul(R(2), atr), entry_price), R(100))
                    ELSE IF ~IsNone(fixed_pct) THEN fixed_pct
                    ELSE R(DefaultStopPct)
        fraction == RDiv(stop_pct, R(100))
    IN  IF ~IsNone(atr) /\ IsZero(entry_price)
        THEN Raises(self, "ZeroDivisionError")
        ELSE IF direction = 1
             THEN Returns(self, RMul(entry_price, RSub(R(1), fraction)))
             ELSE Returns(self, RMul(entry_price, RAdd(R(1), fraction)))

calculate_stop_loss(self, entry_price, direction, atr, fixed_pct) ==
    LET stop_pct == IF ~IsNone(fixed_pct) THEN fixed_pct
                    ELSE IF ~IsNone(atr)
                         THEN RMul(RDiv(RMul(R(2), atr), entry_price), R(100))
                    ELSE R(DefaultStopPct)
        fraction == RDiv(stop_pct, R(100))
    IN  IF IsNone(fixed_pct) /\ ~IsNone(atr) /\ IsZero(entry_price)
        THEN Raises(self, "ZeroDivisionError")
        ELSE IF direction = 1
             THEN Returns(self, RMul(entry_price, RSub(R(1), fraction)))
             ELSE Returns(self, RMul(entry_price, RAdd(R(1), fraction)))

---------------------------------------------------------------------------
\* calculate_take_profit(entry_price, stop_loss, direction,
\* risk_reward_ratio=2.0)

\* the method without the abs() of its risk line
calculate_take_profit_signed(self, entry_price, stop_loss, direction, risk_reward_ratio) ==
    LET risk   == RSub(entry_price, stop_loss)
        reward == RMul(risk, risk_reward_ratio)
    IN  IF direction = 1
        THEN Returns(self, RAdd(entry_price, reward))
        ELSE Returns(self, RSub(entry_price, reward))

calculate_take_profit(self, entry_price, stop_loss, direction, risk_reward_ratio) ==
    LET risk   == RAbs(RSub(entry_price, stop_loss))
        reward == RMul(risk, risk_reward_ratio)
    IN  IF direction = 1
        THEN Returns(self, RAdd(entry_price, reward))
        ELSE Returns(self, RSub(entry_price, reward))

---------------------------------------------------------------------------
\* update_trailing_stop(entry_price, current_price, current_stop, direction)

\* the method without its comparisons: the stop follows the price both ways
update_trailing_stop_follows(self, entry_price, current_price, current_stop, direction) ==
    LET fraction == RDiv(self.trailing_stop_pct, R(100))
    IN  IF direction = 1
        THEN Returns(self, RMul(current_price, RSub(R(1), fraction)))
        ELSE Returns(self, RMul(current_price, RAdd(R(1), fraction)))

\* the method moving the stop only once the price is on the winning side of
\* the entry
update_trailing_stop_in_profit(self, entry_price, current_price, current_stop, direction) ==
    LET fraction == RDiv(self.trailing_stop_pct, R(100))
        long_stop  == RMul(current_price, RSub(R(1), fraction))
        short_stop == RMul(current_price, RAdd(R(1), fraction))
    IN  IF direction = 1
        THEN IF RLt(entry_price, current_price) /\ RLt(current_stop, long_stop)
             THEN Returns(self, long_stop)
             ELSE Returns(self, current_stop)
        ELSE IF RLt(current_price, entry_price) /\ RLt(short_stop, current_stop)
             THEN Returns(self, short_stop)
             ELSE Returns(self, current_stop)

update_trailing_stop(self, entry_price, current_price, current_stop, direction) ==
    LET fraction == RDiv(self.trailing_stop_pct, R(100))
        long_stop  == RMul(current_price, RSub(R(1), fraction))
        short_stop == RMul(current_price, RAdd(R(1), fraction))
    IN  IF direction = 1
        THEN IF RLt(current_stop, long_stop)
             THEN Returns(self, long_stop)
             ELSE Returns(self, current_stop)
        ELSE IF RLt(short_stop, current_stop)
             THEN Returns(self, short_stop)
             ELSE Returns(self, current_stop)

---------------------------------------------------------------------------
\* check_max_daily_loss(daily_pnl, account_balance)

\* the method with "<" where it has "<="
check_max_daily_loss_strict(self, daily_pnl, account_balance) ==
    IF IsZero(account_balance) THEN Raises(self, "ZeroDivisionError")
    ELSE LET daily_loss_pct == RMul(RDiv(daily_pnl, account_balance), R(100))
         IN  Returns(self, RLt(daily_loss_pct, RNeg(self.max_daily_loss_pct)))

check_max_daily_loss(self, daily_pnl, account_balance) ==
    IF IsZero(account_balance) THEN Raises(self, "ZeroDivisionError")
    ELSE LET daily_loss_pct == RMul(RDiv(daily_pnl, account_balance), R(100))
         IN  Returns(self, RLe(daily_loss_pct, RNeg(self.max_daily_loss_pct)))

\* check_max_drawdown(current_balance, peak_balance)

check_max_drawdown(self, current_balance, peak_balance) ==
    IF IsZero(peak_balance) THEN Raises(self, "ZeroDivisionError")
    ELSE LET drawdown_pct ==
                 RMul(RDiv(RSub(current_balance, peak_balance), peak_balance),
                      R(100))
         IN  Returns(self, RLe(drawdown_pct, RNeg(self.max_drawdown_pct)))

---------------------------------------------------------------------------
\* filter_correlated_assets(correlation_matrix, threshold=0.7): the matrix is
\* [labels |-> the asset symbols, which index the rows and the columns,
\*  corr |-> the rows]

\* correlation_matrix.where(np.triu(ones, k=1)): NaN on and below the diagonal
Upper(matrix, row, col) == IF row < col THEN matrix.corr[row][col] ELSE NaN

\* the comparison as value >= threshold
Exceeds_or_equal(value, threshold) == IsNum(value) /\ RLe(threshold, value)

\* value > threshold, False for a NaN
Exceeds(value, threshold) == IsNum(value) /\ RLt(threshold, value)

\* the loops "for col in upper.columns: for idx, value in upper[col].items()":
\* step k visits row (k-1) % n + 1 of column (k-1) \div n + 1
RECURSIVE ScanUpper(_, _, _, _)
ScanUpper(matrix, threshold, k, highly_correlated) ==
    LET n   == Len(matrix.labels)
        col == ((k - 1) \div n) + 1
        row == ((k - 1) % n) + 1
    IN  IF k > n * n THEN highly_correlated
        ELSE ScanUpper(matrix, threshold, k + 1,
                 IF Exceeds(Upper(matrix, row, col), threshold)
                 THEN Append(highly_correlated,
                             <<matrix.labels[row], matrix.labels[col]>>)
                 ELSE highly_correlated)

filter_correlated_assets(self, correlation_matrix, threshold) ==
    Returns(self, ScanUpper(correlation_matrix, threshold, 1, <<>>))

---------------------------------------------------------------------------
\* check_market_conditions(df, lookback=20): df is
\* [close |-> the close prices, has_adx |-> whether the frame has an adx_14
\*  column, adx_14 |-> the last value of that column]

RECURSIVE RSum(_)
RSum(seq) == IF seq = <<>> THEN R(0) ELSE RAdd(Head(seq), RSum(Tail(seq)))

\* df['close'].pct_change().dropna()
PctChange(close) ==
    [i \in 1..(IF Len(close) = 0 THEN 0 ELSE Len(close) - 1) |->
        RSub(RDiv(close[i + 1], close[i]), R(1))]

\* seq[-lookback:], which is the whole of seq for lookback = 0
LastN(seq, lookback) ==
    IF lookback = 0 \/ lookback >= Len(seq) THEN seq
    ELSE SubSeq(seq, Len(seq) - lookback + 1, Len(seq))

RMean(seq) == RDiv(RSum(seq), R(Len(seq)))

\* the square of Series.std() (ddof = 1): NaN for fewer than two values
Variance(seq) ==
    IF Len(seq) < 2 THEN NaN
    ELSE LET m == RMean(seq)
             squares == [i \in 1..Len(seq) |->
                            RMul(RSub(seq[i], m), RSub(seq[i], m))]
         IN  RDiv(RSum(squares), R(Len(seq) - 1))

TradingDays == 252

TrendThreshold == 25

\* 0.8 squared: std * sqrt(252) > 0.8 is decided on the squares
VolatilityThresholdSq == <<16, 25>>

RiskFactorHigh == <<1, 2>>

RiskFactorTrend == <<1, 1>>

RiskFactorNormal == <<3, 4>>

\* the method with the first two branches of its regime test in the other
\* order: the trend before the volatility
check_market_conditions_trend_first(self, df, lookback) ==
    LET returns == PctChange(df.close)
        variance == Variance(LastN(returns, lookback))
        volatility_sq == IF IsNum(variance)
                         THEN RMul(variance, R(TradingDays)) ELSE NaN
        trend_strength == IF df.has_adx THEN df.adx_14 ELSE None
        high == IsNum(volatility_sq) /\ RLt(VolatilityThresholdSq, volatility_sq)
        trend == trend_strength # None /\ IsNum(trend_strength)
                 /\ RLt(R(TrendThreshold), trend_strength)
    IN  IF df.has_adx /\ Len(df.close) = 0 THEN Raises(self, "IndexError")
        ELSE Returns(self,
               [market_regime  |-> IF trend THEN "Strong Trend"
                                   ELSE IF high THEN "High Volatility"
                                   ELSE "Normal",
                volatility_sq  |-> volatility_sq,
                trend_strength |-> trend_strength,
                risk_factor    |-> IF trend THEN RiskFactorTrend
                                   ELSE IF high THEN RiskFactorHigh
                                   ELSE RiskFactorNormal])

check_market_conditions(self, df, lookback) ==
    LET returns == PctChange(df.close)
        variance == Variance(LastN(returns, lookback))
        \* the square of recent_volatility
        volatility_sq == IF IsNum(variance)
                         THEN RMul(variance, R(TradingDays)) ELSE NaN
        trend_strength == IF df.has_adx THEN df.adx_14 ELSE None
        high == IsNum(volatility_sq) /\ RLt(VolatilityThresholdSq, volatility_sq)
        trend == trend_strength # None /\ IsNum(trend_strength)
                 /\ RLt(R(TrendThreshold), trend_strength)
    IN  IF df.has_adx /\ Len(df.close) = 0 THEN Raises(self, "IndexError")
        ELSE Returns(self,
               [market_regime  |-> IF high THEN "High Volatility"
                                   ELSE IF trend THEN "Strong Trend"
                                   ELSE "Normal",
                volatility_sq  |-> volatility_sq,
                trend_strength |-> trend_strength,
                risk_factor    |-> IF high THEN RiskFactorHigh
                                   ELSE IF trend THEN RiskFactorTrend
                                   ELSE RiskFactorNormal])

---------------------------------------------------------------------------
\* adjust_risk_for_market_conditions(market_conditions)

\* the method applying the adjustment to the instance as well as returning it
adjust_risk_applied(self, market_conditions) ==
    LET risk_factor == market_conditions.risk_factor
        adjusted ==
          [max_position_size_pct  |-> RMul(self.max_position_size_pct, risk_factor),
           max_risk_per_trade_pct |-> RMul(self.max_risk_per_trade_pct, risk_factor),
           trailing_stop_pct      |-> RMul(self.trailing_stop_pct,
                                           RSub(R(2), risk_factor))]
    IN  [self   |-> [self EXCEPT
                       !.max_position_size_pct = adjusted.max_position_size_pct,
                       !.max_risk_per_trade_pct = adjusted.max_risk_per_trade_pct,
                       !.trailing_stop_pct = adjusted.trailing_stop_pct],
         ret    |-> adjusted,
         raised |-> ""]

\* the method computing the adjustment from the constructor's defaults
\* instead of the values in force
adjust_risk_from_defaults(self, market_conditions) ==
    LET risk_factor == market_conditions.risk_factor
    IN  Returns(self,
          [max_position_size_pct  |-> RMul(Defaults.max_position_size_pct,
                                           risk_factor),
           max_risk_per_trade_pct |-> RMul(Defaults.max_risk_per_trade_pct,
                                           risk_factor),
           trailing_stop_pct      |-> RMul(Defaults.trailing_stop_pct,
                                           RSub(R(2), risk_factor))])

adjust_risk_for_market_conditions(self, market_conditions) ==
    LET risk_factor == market_conditions.risk_factor
    IN  Returns(self,
          [max_position_size_pct  |-> RMul(self.max_position_size_pct, risk_factor),
           max_risk_per_trade_pct |-> RMul(self.max_risk_per_trade_pct, risk_factor),
           trailing_stop_pct      |-> RMul(self.trailing_stop_pct,
                                           RSub(R(2), risk_factor))])

---------------------------------------------------------------------------
\* generate_risk_report(trades, account_balance, open_positions): trades is
\* the profit_loss column of the trade history, open_positions the 'value'
\* of each open position

\* trades[trades['profit_loss'] > 0] and trades[trades['profit_loss'] < 0]
RECURSIVE Winning(_)
Winning(trades) ==
    IF trades = <<>> THEN <<>>
    ELSE IF RLt(R(0), Head(trades))
         THEN <<Head(trades)>> \o Winning(Tail(trades))
         ELSE Winning(Tail(trades))

RECURSIVE Losing(_)
Losing(trades) ==
    IF trades = <<>> THEN <<>>
    ELSE IF RLt(Head(trades), R(0))
         THEN <<Head(trades)>> \o Losing(Tail(trades))
         ELSE Losing(Tail(trades))

\* x > bound, for the exposure thresholds
HighExposure == 50

MediumExposure == 25

\* the method with its exposure thresholds taken from the instance: ten and
\* five times max_position_size_pct
generate_risk_report_reads_instance(self, trades, account_balance, open_positions) ==
    LET total_exposure == IF Len(open_positions) > 0
                          THEN RSum(open_positions) ELSE R(0)
        exposure_pct   == RMul(RDiv(total_exposure, account_balance), R(100))
        winning_trades == Winning(trades)
        win_rate       == RMul(RDiv(R(Len(winning_trades)), R(Len(trades))),
                               R(100))
        avg_win        == IF Len(winning_trades) > 0
                          THEN RMean(winning_trades) ELSE R(0)
        losing_trades  == Losing(trades)
        avg_loss       == IF Len(losing_trades) > 0
                          THEN RMean(losing_trades) ELSE R(0)
        risk_reward    == IF ~IsZero(avg_loss)
                          THEN RAbs(RDiv(avg_win, avg_loss)) ELSE Inf
        expectancy     == RAdd(RMul(RDiv(win_rate, R(100)), avg_win),
                               RMul(RDiv(RSub(R(100), win_rate), R(100)),
                                    avg_loss))
    IN  IF IsZero(account_balance) THEN Raises(self, "ZeroDivisionError")
        ELSE IF Len(trades) = 0 THEN Raises(self, "UnboundLocalError")
        ELSE Returns(self,
               [total_exposure |-> total_exposure,
                exposure_pct   |-> exposure_pct,
                open_positions |-> Len(open_positions),
                win_rate       |-> win_rate,
                avg_win        |-> avg_win,
                avg_loss       |-> avg_loss,
                risk_reward    |-> risk_reward,
                expectancy     |-> expectancy,
                risk_status    |-> IF RLt(RMul(R(10), self.max_position_size_pct),
                                          exposure_pct)
                                   THEN "High Risk"
                                   ELSE IF RLt(RMul(R(5), self.max_position_size_pct),
                                               exposure_pct)
                                        THEN "Medium Risk"
                                   ELSE "Low Risk"])

generate_risk_report(self, trades, account_balance, open_positions) ==
    LET total_exposure == IF Len(open_positions) > 0
                          THEN RSum(open_positions) ELSE R(0)
        exposure_pct   == RMul(RDiv(total_exposure, account_balance), R(100))
        winning_trades == Winning(trades)
        win_rate       == RMul(RDiv(R(Len(winning_trades)), R(Len(trades))),
                               R(100))
        avg_win        == IF Len(winning_trades) > 0
                          THEN RMean(winning_trades) ELSE R(0)
        losing_trades  == Losing(trades)
        avg_loss       == IF Len(losing_trades) > 0
                          THEN RMean(losing_trades) ELSE R(0)
        risk_reward    == IF ~IsZero(avg_loss)
                          THEN RAbs(RDiv(avg_win, avg_loss)) ELSE Inf
        expectancy     == RAdd(RMul(RDiv(win_rate, R(100)), avg_win),
                               RMul(RDiv(RSub(R(100), win_rate), R(100)),
                                    avg_loss))
    IN  IF IsZero(account_balance) THEN Raises(self, "ZeroDivisionError")
        \* winning_trades is assigned only under "if len(trades) > 0" and
        \* read by the avg_win line whatever the length
        ELSE IF Len(trades) = 0 THEN Raises(self, "UnboundLocalError")
        ELSE Returns(self,
               [total_exposure |-> total_exposure,
                exposure_pct   |-> exposure_pct,
                open_positions |-> Len(open_positions),
                win_rate       |-> win_rate,
                avg_win        |-> avg_win,
                avg_loss       |-> avg_loss,
                risk_reward    |-> risk_reward,
                expectancy     |-> expectancy,
                risk_status    |-> IF RLt(R(HighExposure), exposure_pct)
                                   THEN "High Risk"
                                   ELSE IF RLt(R(MediumExposure), exposure_pct)
                                        THEN "Medium Risk"
                                   ELSE "Low Risk"])

---------------------------------------------------------------------------
\* get_loss_prevention_recommendations(risk_report, market_conditions)

MsgExposure == "Reduce overall exposure to decrease risk."

MsgPositions == "Maximum number of open positions reached. Close some positions before opening new ones."

MsgWinRate == "Win rate is low. Consider adjusting your strategy or taking a break."

MsgRiskReward == "Risk-reward ratio is unfavorable. Aim for larger profit targets or tighter stop losses."

MsgVolatility == "Market volatility is high. Reduce position sizes and use wider stop losses."

MsgExpectancy == "Trading expectancy is negative. Review your strategy or consider paper trading."

LowWinRate == 40

\* the append as an insert at the front of the list
AppendIf_front(recommendations, cond, msg) ==
    IF cond THEN <<msg>> \o recommendations ELSE recommendations

\* recommendations.append(msg) under "if cond"
AppendIf(recommendations, cond, msg) ==
    IF cond THEN Append(recommendations, msg) ELSE recommendations

get_loss_prevention_recommendations(self, risk_report, market_conditions) ==
    LET r1 == AppendIf(<<>>, RLt(R(HighExposure), risk_report.exposure_pct),
                       MsgExposure)
        r2 == AppendIf(r1, risk_report.open_positions >= self.max_open_positions,
                       MsgPositions)
        r3 == AppendIf(r2, RLt(risk_report.win_rate, R(LowWinRate)), MsgWinRate)
        r4 == AppendIf(r3, IsNum(risk_report.risk_reward)
                           /\ RLt(risk_report.risk_reward, R(1)),
                       MsgRiskReward)
        r5 == AppendIf(r4, market_conditions.market_regime = "High Volatility",
                       MsgVolatility)
        r6 == AppendIf(r5, RLt(risk_report.expectancy, R(0)), MsgExpectancy)
    IN  Returns(self, r6)

---------------------------------------------------------------------------
\* The calls made on the instance.  A call records the method, its arguments,
\* what it returned or raised, and leaves the instance as the method left it.

Call(method, arguments, outcome) ==
    /\ op' = method
    /\ args' = arguments
    /\ params' = outcome.self
    /\ result' = outcome.ret
    /\ raised' = outcome.raised
    /\ UNCHANGED <<pos, thr, commits>>

ParameterNames ==
    {"max_position_size_pct", "max_risk_per_trade_pct", "max_daily_loss_pct",
     "max_drawdown_pct", "trailing_stop_pct", "volatility_adjustment",
     "correlation_filter", "max_open_positions"}

\* the largest number of keywords in one call
MaxKeywords == 2

Keywords(names, values) == [name \in names |-> values[name]]

\* the keyword dictionaries over the names given, each value drawn from the
\* set that choices gives for its name
KwargsOver(names, choices) ==
    {Keywords(given, values) :
        given \in {g \in SUBSET names : Cardinality(g) <= MaxKeywords},
        values \in choices}

\* the values a caller passes in a session; "leverage" is a keyword the
\* method does not know
SessionValues ==
    [max_position_size_pct  : {R(10)},
     max_risk_per_trade_pct : {R(-2)},
     max_daily_loss_pct     : {R(3)},
     max_drawdown_pct       : {R(10)},
     trailing_stop_pct      : {R(3)},
     volatility_adjustment  : {FALSE},
     correlation_filter     : {FALSE},
     max_open_positions     : {0},
     leverage               : {R(2)}]

SessionKwargs == KwargsOver(ParameterNames \cup {"leverage"}, SessionValues)

SetRiskParameters(kwargs) ==
    \E kw \in kwargs :
        Call("set_risk_parameters", kw, set_risk_parameters(params, kw))

NoRequest ==
    [account_balance |-> R(0), entry_price |-> R(0), stop_loss |-> R(0),
     volatility |-> None]

\* the two threads of the concurrent runs, both yet to start: the line the
\* sizing request is at, the number of the "if" the update is at, and what
\* each has read so far
Idle ==
    [pcS |-> "idle", pcU |-> 0, request |-> NoRequest, kw |-> <<>>,
     before |-> Defaults, risk_pct |-> None, adjust |-> FALSE,
     max_pct |-> None]

NoPosition == [direction |-> 1, entry_price |-> R(0), stop |-> R(0)]

\* the risk factors check_market_conditions gives, and the number of
\* adjustments committed so far at each of them: none
RiskFactors == {RiskFactorHigh, RiskFactorNormal, RiskFactorTrend}

NoCommits == [f \in RiskFactors |-> 0]

Init ==
    /\ params = Defaults
    /\ op = "__init__"
    /\ args = <<>>
    /\ result = None
    /\ raised = ""
    /\ pos = NoPosition
    /\ thr = Idle
    /\ commits = NoCommits

---------------------------------------------------------------------------
\* One action per calculation or query method, its arguments drawn from the
\* sets given.

CalculatePositionSize(balances, entries, stops, volatilities) ==
    \E b \in balances, e \in entries, s \in stops, v \in volatilities :
        Call("calculate_position_size",
             [account_balance |-> b, entry_price |-> e, stop_loss |-> s,
              volatility |-> v],
             calculate_position_size(params, b, e, s, v))

CalculateStopLoss(entries, directions, atrs, fixed_pcts) ==
    \E e \in entries, d \in directions, a \in atrs, f \in fixed_pcts :
        Call("calculate_stop_loss",
             [entry_price |-> e, direction |-> d, atr |-> a, fixed_pct |-> f],
             calculate_stop_loss(params, e, d, a, f))

CalculateTakeProfit(entries, stops, directions, ratios) ==
    \E e \in entries, s \in stops, d \in directions, rr \in ratios :
        Call("calculate_take_profit",
             [entry_price |-> e, stop_loss |-> s, direction |-> d,
              risk_reward_ratio |-> rr],
             calculate_take_profit(params, e, s, d, rr))

UpdateTrailingStop(entries, prices, stops, directions) ==
    \E e \in entries, p \in prices, s \in stops, d \in directions :
        Call("update_trailing_stop",
             [entry_price |-> e, current_price |-> p, current_stop |-> s,
              direction |-> d],
             update_trailing_stop(params, e, p, s, d))

CheckMaxDailyLoss(pnls, balances) ==
    \E pnl \in pnls, b \in balances :
        Call("check_max_daily_loss",
             [daily_pnl |-> pnl, account_balance |-> b],
             check_max_daily_loss(params, pnl, b))

CheckMaxDrawdown(balances, peaks) ==
    \E b \in balances, peak \in peaks :
        Call("check_max_drawdown",
             [current_balance |-> b, peak_balance |-> peak],
             check_max_drawdown(params, b, peak))

FilterCorrelatedAssets(matrices, thresholds) ==
    \E m \in matrices, t \in thresholds :
        Call("filter_correlated_assets",
             [correlation_matrix |-> m, threshold |-> t],
             filter_correlated_assets(params, m, t))

CheckMarketConditions(frames, lookbacks) ==
    \E df \in frames, n \in lookbacks :
        Call("check_market_conditions", [df |-> df, lookback |-> n],
             check_market_conditions(params, df, n))

AdjustRiskForMarketConditions(conditions) ==
    \E mc \in conditions :
        Call("adjust_risk_for_market_conditions", [market_conditions |-> mc],
             adjust_risk_for_market_conditions(params, mc))

GenerateRiskReport(histories, balances, positions) ==
    \E t \in histories, b \in balances, o \in positions :
        Call("generate_risk_report",
             [trades |-> t, account_balance |-> b, open_positions |-> o],
             generate_risk_report(params, t, b, o))

GetLossPreventionRecommendations(reports, conditions) ==
    \E r \in reports, mc \in conditions :
        Call("get_loss_prevention_recommendations",
             [risk_report |-> r, market_conditions |-> mc],
             get_loss_prevention_recommendations(params, r, mc))

---------------------------------------------------------------------------
\* A session on one instance: any method, any number of times, in any order.

Assets == <<"BTC/USDT", "ETH/USDT", "SOL/USDT">>

\* a symmetric correlation matrix with ones on the diagonal
Matrix(ab, ac, bc) ==
    [labels |-> Assets,
     corr   |-> << <<R(1), ab, ac>>, <<ab, R(1), bc>>, <<ac, bc, R(1)>> >>]

Frame(close, has_adx, adx) ==
    [close |-> close, has_adx |-> has_adx, adx_14 |-> adx]

Rs(ints) == [i \in 1..Len(ints) |-> R(ints[i])]

SessionFrames ==
    {Frame(Rs(<<50, 51, 51>>), TRUE, R(30)),
     Frame(Rs(<<20, 22, 20, 22>>), TRUE, R(30)),
     Frame(Rs(<<50, 51, 51>>), FALSE, None)}

SessionConditions ==
    {check_market_conditions(Defaults, df, 20).ret : df \in SessionFrames}

SessionReports ==
    {generate_risk_report(Defaults, t, R(10000), o).ret :
        t \in {Rs(<<100, -50, 150>>), Rs(<<-100, -50, 20>>)},
        o \in {Rs(<<5000, 3000>>), <<>>}}

Next ==
    \/ SetRiskParameters(SessionKwargs)
    \/ CalculatePositionSize({R(10000)}, {R(50000)}, {R(48000), R(50000)},
                             {None, <<1, 2>>})
    \/ CalculateStopLoss({R(50000)}, {1, -1}, {None, R(1000)}, {None, R(3)})
    \/ CalculateTakeProfit({R(50000)}, {R(48500)}, {1, -1}, {R(2)})
    \/ UpdateTrailingStop({R(50000)}, {R(52000), R(49000)}, {R(48500)}, {1, -1})
    \/ CheckMaxDailyLoss({R(-500), R(100)}, {R(10000)})
    \/ CheckMaxDrawdown({R(8500), R(9500)}, {R(10000)})
    \/ FilterCorrelatedAssets(
           {Matrix(<<1, 2>>, <<3, 5>>, <<2, 5>>),
            Matrix(<<19, 20>>, <<3, 5>>, <<2, 5>>)}, {<<7, 10>>})
    \/ CheckMarketConditions(SessionFrames, {20})
    \/ AdjustRiskForMarketConditions(SessionConditions)
    \/ GenerateRiskReport({Rs(<<100, -50, 150>>), Rs(<<-100, -50, 20>>)},
                          {R(10000)}, {Rs(<<5000, 3000>>), <<>>})
    \/ GetLossPreventionRecommendations(SessionReports, SessionConditions)

Spec == Init /\ [][Next]_vars

---------------------------------------------------------------------------
\* C3: the risk parameters are never left outside their invariant: after
\* construction and after any sequence of set_risk_parameters calls every
\* percentage field is >= 0 and max_open_positions is >= 1.
C3_ParametersValid ==
    /\ RLe(R(0), params.max_position_size_pct)
    /\ RLe(R(0), params.max_risk_per_trade_pct)
    /\ RLe(R(0), params.max_daily_loss_pct)
    /\ RLe(R(0), params.max_drawdown_pct)
    /\ RLe(R(0), params.trailing_stop_pct)
    /\ params.max_open_positions >= 1

\* C4: set_risk_parameters is a partial merge: a field named in the call
\* takes the value given, every field not named keeps the value it had.
C4_PartialMerge ==
    [][op' = "set_risk_parameters" =>
          \A name \in ParameterNames :
              params'[name] = IF name \in DOMAIN args' THEN args'[name]
                              ELSE params[name]]_vars

\* a call that names two fields, on an instance where a third field already
\* differs from its default and is kept
C4_Witness ==
    /\ op = "set_risk_parameters"
    /\ DOMAIN args = {"max_drawdown_pct", "volatility_adjustment"}
    /\ params.max_drawdown_pct = args.max_drawdown_pct
    /\ params.volatility_adjustment = args.volatility_adjustment
    /\ params.trailing_stop_pct # Defaults.trailing_stop_pct
    /\ params.max_daily_loss_pct = Defaults.max_daily_loss_pct

\* C5: no calculation or query method changes the risk parameters; only
\* set_risk_parameters does.
C5_CalculationsKeepParameters ==
    [][op' # "set_risk_parameters" => params' = params]_vars

\* an adjustment has been computed from parameters that differ from the
\* defaults, it differs from them, and they are as they were
C5_Witness ==
    /\ op = "adjust_risk_for_market_conditions"
    /\ params # Defaults
    /\ result.max_position_size_pct # params.max_position_size_pct
    /\ result.trailing_stop_pct # params.trailing_stop_pct


---------------------------------------------------------------------------
\* Position sizing under changing parameters: the sizing request and the
\* updates of the three parameters it reads.

SizingValues ==
    [max_position_size_pct  : {R(10)},
     max_risk_per_trade_pct : {R(1), R(-2)},
     volatility_adjustment  : {FALSE, TRUE}]

SizingKwargs ==
    KwargsOver({"max_position_size_pct", "max_risk_per_trade_pct",
                "volatility_adjustment"}, SizingValues)

SizingBalances == {R(10000), R(2000)}

SizingEntries == {R(50000), R(0)}

SizingStops == {R(48000), R(25000), R(50000), R(0)}

SizingVolatilities == {None, R(0), <<1, 2>>, R(1)}

NextSizing ==
    \/ SetRiskParameters(SizingKwargs)
    \/ CalculatePositionSize(SizingBalances, SizingEntries, SizingStops,
                             SizingVolatilities)

SpecSizing == Init /\ [][NextSizing]_vars

\* the call recorded in the state is a sizing request that returned
Sized == op = "calculate_position_size" /\ raised = ""

\* C2: the result of calculate_position_size is at least 0 and at most
\* max_size = account_balance * max_position_size_pct/100 / entry_price,
\* for every input and every value of the risk parameters.
C2_SizeWithinBounds ==
    Sized =>
        /\ RLe(R(0), result)
        /\ ~IsZero(args.entry_price) =>
               RLe(result,
                   RDiv(RMul(args.account_balance,
                             RDiv(params.max_position_size_pct, R(100))),
                        args.entry_price))

\* C7: calculate_position_size returns 0 and raises nothing whenever
\* entry_price equals stop_loss, for every balance, volatility and
\* parameter setting.
C7_ZeroRiskDistanceGivesZero ==
    (op = "calculate_position_size" /\ args.entry_price = args.stop_loss) =>
        raised = "" /\ result = R(0)

\* entry and stop coincide at a price of 0, with a volatility given and the
\* parameters changed: every later division of the method would be by 0
C7_Witness ==
    /\ op = "calculate_position_size"
    /\ args.entry_price = R(0)
    /\ args.stop_loss = R(0)
    /\ args.volatility = R(1)
    /\ params.max_risk_per_trade_pct = R(-2)
    /\ result = R(0)

\* C8: with volatility_adjustment enabled and the other inputs fixed, the
\* size does not grow with the volatility, and the volatility factor makes
\* it neither negative nor larger than the size without a volatility.
C8_MonotoneInVolatility ==
    (Sized /\ params.volatility_adjustment /\ ~IsNone(args.volatility)
           /\ ~IsZero(args.entry_price)) =>
        LET Size(v) == calculate_position_size(params, args.account_balance,
                           args.entry_price, args.stop_loss, v).ret
        IN  /\ \A v2 \in SizingVolatilities \ {None} :
                   RLe(args.volatility, v2) => RLe(Size(v2), result)
            /\ RLe(R(0), result)
            /\ RLe(result, Size(None))

\* C23: in calculate_position_size the cap is applied last, after the
\* volatility adjustment: the result is min(risk_amount / risk_per_unit *
\* volatility_factor, max_size).  With the default parameters, balance 10000,
\* entry 50000, stop 48000 and volatility 0.5 the adjusted size, 1/15, is
\* above the cap and the result is the cap, 0.01.
C23_CapAppliedLast ==
    (Sized /\ args.entry_price # args.stop_loss /\ ~IsZero(args.entry_price)) =>
        LET risk_amount == RDiv(RMul(args.account_balance,
                                     params.max_risk_per_trade_pct), R(100))
            risk_per_unit == RAbs(RSub(args.entry_price, args.stop_loss))
            factor == IF params.volatility_adjustment /\ ~IsNone(args.volatility)
                      THEN RDiv(R(1), RAdd(R(1), args.volatility))
                      ELSE R(1)
            size == RMul(RDiv(risk_amount, risk_per_unit), factor)
            max_size == RDiv(RDiv(RMul(args.account_balance,
                                       params.max_position_size_pct), R(100)),
                             args.entry_price)
        IN  /\ result = IF RLt(max_size, size) THEN max_size ELSE size
            /\ (params = Defaults /\ args.account_balance = R(10000)
                /\ args.entry_price = R(50000) /\ args.stop_loss = R(48000)
                /\ args.volatility = <<1, 2>>) =>
                   /\ size = <<1, 15>>
                   /\ RLt(max_size, size)
                   /\ result = <<1, 100>>

\* the scenario of the claim
C23_Witness ==
    /\ op = "calculate_position_size"
    /\ params = Defaults
    /\ args.account_balance = R(10000)
    /\ args.entry_price = R(50000)
    /\ args.stop_loss = R(48000)
    /\ args.volatility = <<1, 2>>
    /\ result = <<1, 100>>

---------------------------------------------------------------------------
\* Price levels: stop loss, take profit and trailing stop, each call with
\* arguments of its own.

LevelKwargs == KwargsOver({"trailing_stop_pct"}, [trailing_stop_pct : {R(3)}])

LevelEntries == {R(50000), R(100), R(0), R(-100)}

LevelDirections == {1, -1}

LevelAtrs == {None, R(1000), R(0)}

LevelFixedPcts == {None, R(3), R(0)}

NextLevels ==
    \/ SetRiskParameters(LevelKwargs)
    \/ CalculateStopLoss(LevelEntries, LevelDirections, LevelAtrs,
                         LevelFixedPcts)
    \/ CalculateTakeProfit({R(50000)}, {R(48500), R(51500), R(50000)},
                           LevelDirections, {R(2), <<1, 2>>, R(0), R(-1)})
    \/ UpdateTrailingStop({R(50000), R(60000)},
                          {R(52000), R(50000), R(49000)},
                          {R(48500), R(51500)}, LevelDirections)

SpecLevels == Init /\ [][NextLevels]_vars


\* C9: calculate_stop_loss takes the stop percentage from fixed_pct when it
\* is given (also when atr is given too), otherwise (2 * atr / entry_price)
\* * 100 when atr is given, otherwise 5.0; it returns entry_price * (1 -
\* pct/100) for a long and entry_price * (1 + pct/100) for a short; entry
\* 50000, long, fixed_pct 3.0 gives 48500.
C9_StopLossPrecedence ==
    op = "calculate_stop_loss" =>
        LET e == args.entry_price
            pct == IF ~IsNone(args.fixed_pct) THEN args.fixed_pct
                   ELSE IF ~IsNone(args.atr)
                        THEN RDiv(RMul(R(200), args.atr), e)
                   ELSE R(5)
            distance == RDiv(RMul(e, pct), R(100))
            defined == ~IsNone(args.fixed_pct) \/ IsNone(args.atr) \/ ~IsZero(e)
        IN  /\ defined =>
                /\ raised = ""
                /\ result = IF args.direction = 1 THEN RSub(e, distance)
                            ELSE RAdd(e, distance)
            /\ (e = R(50000) /\ args.direction = 1 /\ args.fixed_pct = R(3)) =>
                   result = R(48500)

\* the scenario of the claim, with an atr given as well as the fixed_pct
C9_Witness ==
    /\ op = "calculate_stop_loss"
    /\ args.entry_price = R(50000)
    /\ args.direction = 1
    /\ args.fixed_pct = R(3)
    /\ args.atr = R(1000)
    /\ result = R(48500)

\* C10: the price calculate_stop_loss returns is strictly below entry_price
\* for a long and strictly above it for a short.
C10_StopOnCorrectSide ==
    (op = "calculate_stop_loss" /\ raised = "") =>
        IF args.direction = 1 THEN RLt(result, args.entry_price)
        ELSE RLt(args.entry_price, result)

\* C11: calculate_stop_loss fails with an InvalidInput error, and returns
\* no price, whenever entry_price <= 0.
C11_StopLossRejectsNonPositiveEntry ==
    (op = "calculate_stop_loss" /\ RLe(args.entry_price, R(0))) =>
        raised = "InvalidInput"

\* C12: calculate_take_profit returns entry_price + |entry_price -
\* stop_loss| * risk_reward_ratio for a long and entry_price - |entry_price
\* - stop_loss| * risk_reward_ratio for a short; for a positive ratio the
\* target is on the profit side of entry (strictly so when the stop is not
\* at entry) and its distance from entry is the ratio times the distance
\* from entry to the stop; entry 50000, stop 48500, long, ratio 2 gives
\* 53000.
C12_TakeProfitFormula ==
    op = "calculate_take_profit" =>
        LET e == args.entry_price
            rr == args.risk_reward_ratio
            distance == RAbs(RSub(e, args.stop_loss))
        IN  /\ raised = ""
            /\ result = IF args.direction = 1
                        THEN RAdd(e, RMul(distance, rr))
                        ELSE RSub(e, RMul(distance, rr))
            /\ RLt(R(0), rr) =>
                   /\ IF args.direction = 1 THEN RLe(e, result)
                      ELSE RLe(result, e)
                   /\ ~IsZero(distance) => result # e
                   /\ RAbs(RSub(result, e)) = RMul(rr, distance)
            /\ (e = R(50000) /\ args.stop_loss = R(48500)
                /\ args.direction = 1 /\ rr = R(2)) => result = R(53000)

\* a long whose stop is given above the entry: the target is still above
\* the entry, at half the distance
C12_Witness ==
    /\ op = "calculate_take_profit"
    /\ args.direction = 1
    /\ args.entry_price = R(50000)
    /\ args.stop_loss = R(51500)
    /\ args.risk_reward_ratio = <<1, 2>>
    /\ result = R(50750)

\* C13: calculate_take_profit rejects a non-positive risk_reward_ratio: the
\* call is surfaced to the caller as InvalidInput and yields no target
\* price.
C13_TakeProfitRejectsNonPositiveRatio ==
    (op = "calculate_take_profit" /\ RLe(args.risk_reward_ratio, R(0))) =>
        raised = "InvalidInput"

\* C26: the result of update_trailing_stop does not depend on entry_price:
\* it is the tighter of current_stop and current_price * (1 -/+
\* trailing_stop_pct / 100), the same for every entry price, so the stop
\* moves toward the price also while the price is on the losing side of the
\* entry.
C26_TrailingStopIgnoresEntry ==
    op = "update_trailing_stop" =>
        LET fraction == RDiv(params.trailing_stop_pct, R(100))
            candidate == IF args.direction = 1
                         THEN RMul(args.current_price, RSub(R(1), fraction))
                         ELSE RMul(args.current_price, RAdd(R(1), fraction))
            tighter == IF args.direction = 1
                       THEN RLt(args.current_stop, candidate)
                       ELSE RLt(candidate, args.current_stop)
        IN  /\ raised = ""
            /\ result = IF tighter THEN candidate ELSE args.current_stop
            /\ \A e \in {R(50000), R(60000), R(40000), R(0)} :
                   update_trailing_stop(params, e, args.current_price,
                       args.current_stop, args.direction).ret = result

\* a long entered at 60000 with the price at 52000, below the entry: the
\* stop is moved up from 48500 to 2 percent under the price
C26_Witness ==
    /\ op = "update_trailing_stop"
    /\ args.direction = 1
    /\ args.entry_price = R(60000)
    /\ args.current_price = R(52000)
    /\ args.current_stop = R(48500)
    /\ RLt(args.current_stop, result)
    /\ RLt(args.current_price, args.entry_price)

---------------------------------------------------------------------------
\* A position whose stop trails the price: each stop update_trailing_stop
\* returns is the current_stop of the next call, while the trailing
\* percentage may be changed between the calls.

TrailKwargs ==
    KwargsOver({"trailing_stop_pct"}, [trailing_stop_pct : {R(3), R(1)}])

TrailStops == {R(48500), R(51500)}

TrailStarts ==
    {[direction |-> d, entry_price |-> R(50000), stop |-> s] :
        d \in {1, -1}, s \in TrailStops}

TrailPrices == {R(47000), R(49000), R(50000), R(52000), R(55000)}

InitTrail ==
    /\ params = Defaults
    /\ op = "__init__"
    /\ args = <<>>
    /\ result = None
    /\ raised = ""
    /\ pos \in TrailStarts
    /\ thr = Idle
    /\ commits = NoCommits

TrailPosition ==
    \E price \in TrailPrices :
        LET outcome == update_trailing_stop(params, pos.entry_price, price,
                                            pos.stop, pos.direction)
        IN  /\ op' = "update_trailing_stop"
            /\ args' = [entry_price |-> pos.entry_price,
                        current_price |-> price, current_stop |-> pos.stop,
                        direction |-> pos.direction]
            /\ params' = outcome.self
            /\ result' = outcome.ret
            /\ raised' = outcome.raised
            /\ pos' = [pos EXCEPT !.stop = outcome.ret]
            /\ UNCHANGED <<thr, commits>>

NextTrail ==
    \/ SetRiskParameters(TrailKwargs)
    \/ TrailPosition

SpecTrail == InitTrail /\ [][NextTrail]_vars

\* C1: the stops update_trailing_stop returns, each fed back as the next
\* current_stop, never decrease for a long position and never increase for
\* a short one, whatever the prices.
C1_TrailingStopRatchet ==
    [][IF pos.direction = 1 THEN RLe(pos.stop, pos'.stop)
       ELSE RLe(pos'.stop, pos.stop)]_vars

\* a long position whose stop has moved up from where it started, and a
\* price that then fell below that stop and left it where it was
C1_Witness ==
    /\ op = "update_trailing_stop"
    /\ pos.direction = 1
    /\ \A s \in TrailStops : RLt(s, pos.stop)
    /\ RLt(args.current_price, args.current_stop)
    /\ pos.stop = args.current_stop


---------------------------------------------------------------------------
\* Two threads on one instance, neither holding a lock: a sizing request,
\* and the regime re-assessment that computes an adjustment and commits it
\* with set_risk_parameters.  A thread can be preempted between any two
\* statements; each read or write of one attribute is atomic.

UpdateOrder ==
    <<"max_position_size_pct", "max_risk_per_trade_pct", "max_daily_loss_pct",
      "max_drawdown_pct", "trailing_stop_pct", "volatility_adjustment",
      "correlation_filter", "max_open_positions">>

ConcRequests ==
    {[account_balance |-> R(10000), entry_price |-> R(50000),
      stop_loss |-> s, volatility |-> v] :
        s \in {R(48000), R(50000)}, v \in {None, <<1, 2>>}}

\* the sizing request is called
SizingBegin ==
    /\ thr.pcS = "idle"
    /\ \E request \in ConcRequests :
           thr' = [thr EXCEPT !.pcS = "line60", !.request = request]
    /\ UNCHANGED <<params, op, args, result, raised, pos, commits>>

\* risk_amount = account_balance * (self.max_risk_per_trade_pct / 100)
SizingLine60 ==
    /\ thr.pcS = "line60"
    /\ thr' = [thr EXCEPT !.pcS = "line63",
                          !.risk_pct = params.max_risk_per_trade_pct]
    /\ UNCHANGED <<params, op, args, result, raised, pos, commits>>

\* the instance as the request has read it so far
View == [params EXCEPT !.max_risk_per_trade_pct = thr.risk_pct,
                       !.volatility_adjustment = thr.adjust]

SizingReturn(outcome) ==
    /\ op' = "calculate_position_size"
    /\ args' = thr.request
    /\ result' = outcome.ret
    /\ raised' = outcome.raised
    /\ UNCHANGED <<params, pos, commits>>

\* risk_per_unit = abs(entry_price - stop_loss); if it is 0: return 0
SizingLine63 ==
    /\ thr.pcS = "line63"
    /\ IF thr.request.entry_price = thr.request.stop_loss
       THEN /\ thr' = [thr EXCEPT !.pcS = "returned"]
            /\ SizingReturn(calculate_position_size(View,
                   thr.request.account_balance, thr.request.entry_price,
                   thr.request.stop_loss, thr.request.volatility))
       ELSE /\ thr' = [thr EXCEPT !.pcS = "line72"]
            /\ UNCHANGED <<params, op, args, result, raised, pos, commits>>

\* if self.volatility_adjustment and volatility is not None
SizingLine72 ==
    /\ thr.pcS = "line72"
    /\ thr' = [thr EXCEPT !.pcS = "line78",
                          !.adjust = params.volatility_adjustment]
    /\ UNCHANGED <<params, op, args, result, raised, pos, commits>>

\* max_position_size = account_balance * (self.max_position_size_pct / 100)
\* / entry_price, the min and the return
SizingLine78 ==
    /\ thr.pcS = "line78"
    /\ thr' = [thr EXCEPT !.pcS = "returned",
                          !.max_pct = params.max_position_size_pct]
    /\ SizingReturn(calculate_position_size(View,
           thr.request.account_balance, thr.request.entry_price,
           thr.request.stop_loss, thr.request.volatility))

\* the re-assessment: check_market_conditions, then
\* adjust_risk_for_market_conditions, then set_risk_parameters is called
\* with the adjustment
UpdateBegin ==
    /\ thr.pcU = 0
    /\ \E df \in SessionFrames :
           LET mc == check_market_conditions(params, df, 20).ret
               kw == adjust_risk_for_market_conditions(params, mc).ret
           IN  thr' = [thr EXCEPT !.pcU = 1, !.kw = kw, !.before = params]
    /\ UNCHANGED <<params, op, args, result, raised, pos, commits>>

\* one "if name in kwargs: self.name = kwargs[name]" of set_risk_parameters
UpdateStep ==
    /\ thr.pcU \in 1..Len(UpdateOrder)
    /\ LET name == UpdateOrder[thr.pcU]
           one  == [n \in {name} \cap DOMAIN thr.kw |-> thr.kw[n]]
       IN  params' = set_risk_parameters(params, one).self
    /\ thr' = [thr EXCEPT !.pcU = thr.pcU + 1]
    /\ UNCHANGED <<op, args, result, raised, pos, commits>>

NextConc ==
    \/ SizingBegin
    \/ SizingLine60
    \/ SizingLine63
    \/ SizingLine72
    \/ SizingLine78
    \/ UpdateBegin
    \/ UpdateStep

SpecConc == Init /\ [][NextConc]_vars

\* C6: a sizing request that runs while set_risk_parameters runs sees no
\* torn update: the max_risk_per_trade_pct and the max_position_size_pct it
\* used are both those from before the update or both those from after it.
C6_NoTornRead ==
    (thr.pcS = "returned" /\ ~IsNone(thr.max_pct)) =>
        LET after == set_risk_parameters(thr.before, thr.kw).self
        IN  \/ /\ thr.risk_pct = thr.before.max_risk_per_trade_pct
               /\ thr.max_pct = thr.before.max_position_size_pct
            \/ /\ thr.risk_pct = after.max_risk_per_trade_pct
               /\ thr.max_pct = after.max_position_size_pct

---------------------------------------------------------------------------
\* Regime assessment and risk adjustment: check_market_conditions on frames
\* of every kind, adjust_risk_for_market_conditions on what it returns, and
\* the updates of the three parameters the adjustment reads.

RegimeValues ==
    [max_position_size_pct  : {R(10)},
     max_risk_per_trade_pct : {R(1), R(-2)},
     trailing_stop_pct      : {R(3)}]

RegimeKwargs ==
    KwargsOver({"max_position_size_pct", "max_risk_per_trade_pct",
                "trailing_stop_pct"}, RegimeValues)

\* close prices: a swinging series, one that swings only at its start, a
\* quiet one, and series of two, one and no points
RegimeCloses ==
    {Rs(<<20, 22, 20, 22>>), Rs(<<20, 22, 22, 22>>), Rs(<<50, 51, 51>>),
     Rs(<<50, 51>>), Rs(<<50>>), <<>>}

\* the last adx_14 of a frame that has the column
RegimeAdx == {R(30), R(25), R(20), NaN}

RegimeFrames ==
    {Frame(close, TRUE, adx) : close \in RegimeCloses, adx \in RegimeAdx}
        \cup {Frame(close, FALSE, None) : close \in RegimeCloses}

RegimeLookbacks == {20, 2, 1}

\* the assessments check_market_conditions returns on these frames
RegimeConditions ==
    {check_market_conditions(Defaults, df, n).ret :
        df \in {f \in RegimeFrames :
                   check_market_conditions(Defaults, f, 20).raised = ""},
        n \in RegimeLookbacks}

NextRegime ==
    \/ SetRiskParameters(RegimeKwargs)
    \/ CheckMarketConditions(RegimeFrames, RegimeLookbacks)
    \/ AdjustRiskForMarketConditions(RegimeConditions)

SpecRegime == Init /\ [][NextRegime]_vars

\* C14: the regime follows a fixed priority: an annualized volatility above
\* 0.8 gives High Volatility with risk_factor 0.5 whatever the
\* trend_strength; otherwise a trend_strength that is present and above 25
\* gives Strong Trend with risk_factor 1.0; otherwise Normal with risk_factor
\* 0.75.  The risk_factor is one of 0.5, 0.75, 1.0 and lies in (0, 1].  The
\* closes 20, 22, 20, 22 have an annualized variance of 9261/3025, above
\* 0.64, and are High Volatility with every trend_strength.
C14_RegimePriority ==
    (op = "check_market_conditions" /\ raised = "") =>
        LET v == result.volatility_sq
            t == IF args.df.has_adx THEN args.df.adx_14 ELSE None
            high == IsNum(v) /\ RLt(<<16, 25>>, v)
            strong == ~IsNone(t) /\ IsNum(t) /\ RLt(R(25), t)
        IN  /\ result.trend_strength = t
            /\ high => /\ result.market_regime = "High Volatility"
                       /\ result.risk_factor = <<1, 2>>
            /\ (~high /\ strong) => /\ result.market_regime = "Strong Trend"
                                    /\ result.risk_factor = R(1)
            /\ (~high /\ ~strong) => /\ result.market_regime = "Normal"
                                     /\ result.risk_factor = <<3, 4>>
            /\ result.risk_factor \in {<<1, 2>>, <<3, 4>>, R(1)}
            /\ RLt(R(0), result.risk_factor)
            /\ RLe(result.risk_factor, R(1))
            /\ (args.df.close = Rs(<<20, 22, 20, 22>>) /\ args.lookback = 20) =>
                   /\ v = <<9261, 3025>>
                   /\ result.market_regime = "High Volatility"

\* a frame that is both above the volatility threshold and above the trend
\* threshold, assessed as High Volatility
C14_Witness ==
    /\ op = "check_market_conditions"
    /\ raised = ""
    /\ args.df.has_adx
    /\ args.df.adx_14 = R(30)
    /\ RLt(<<16, 25>>, result.volatility_sq)
    /\ result.market_regime = "High Volatility"
    /\ result.risk_factor = <<1, 2>>

\* C15: check_market_conditions on a price series with fewer than 2 points
\* fails with InsufficientData instead of returning a regime.
C15_ShortSeriesRejected ==
    (op = "check_market_conditions" /\ Len(args.df.close) < 2) =>
        raised = "InsufficientData"

\* C16: adjust_risk_for_market_conditions returns exactly the three fields
\* max_position_size_pct, max_risk_per_trade_pct and trailing_stop_pct, the
\* current values multiplied by risk_factor, risk_factor and 2 - risk_factor;
\* for every risk_factor in (0, 1] the adjusted max_position_size_pct and
\* max_risk_per_trade_pct are not larger than the current ones.
C16_AdjustmentFields ==
    op = "adjust_risk_for_market_conditions" =>
        LET rf == args.market_conditions.risk_factor
        IN  /\ raised = ""
            /\ DOMAIN result = {"max_position_size_pct",
                                "max_risk_per_trade_pct", "trailing_stop_pct"}
            /\ result.max_position_size_pct =
                   RMul(params.max_position_size_pct, rf)
            /\ result.max_risk_per_trade_pct =
                   RMul(params.max_risk_per_trade_pct, rf)
            /\ result.trailing_stop_pct =
                   RMul(params.trailing_stop_pct, RSub(R(2), rf))
            /\ (RLt(R(0), rf) /\ RLe(rf, R(1))) =>
                   /\ RLe(result.max_position_size_pct,
                          params.max_position_size_pct)
                   /\ RLe(result.max_risk_per_trade_pct,
                          params.max_risk_per_trade_pct)

\* C17: for every risk_factor in (0, 1] the trailing_stop_pct that
\* adjust_risk_for_market_conditions returns is not larger than the
\* trailing_stop_pct in force before the adjustment.
C17_TrailingStopNotWidened ==
    (op = "adjust_risk_for_market_conditions"
        /\ RLt(R(0), args.market_conditions.risk_factor)
        /\ RLe(args.market_conditions.risk_factor, R(1))) =>
        RLe(result.trailing_stop_pct, params.trailing_stop_pct)

---------------------------------------------------------------------------
\* The loss limits: check_max_daily_loss and check_max_drawdown, and the
\* updates of the two limits they read.

LimitValues ==
    [max_daily_loss_pct : {R(3), R(0), R(-3)},
     max_drawdown_pct   : {R(10)}]

LimitKwargs ==
    KwargsOver({"max_daily_loss_pct", "max_drawdown_pct"}, LimitValues)

LimitPnls == {R(-600), R(-500), R(-300), R(-299), R(0), R(100)}

LimitBalances == {R(10000), R(9000), R(8500), R(0)}

LimitPeaks == {R(10000), R(0)}

NextLimits ==
    \/ SetRiskParameters(LimitKwargs)
    \/ CheckMaxDailyLoss(LimitPnls, LimitBalances)
    \/ CheckMaxDrawdown(LimitBalances, LimitPeaks)

SpecLimits == Init /\ [][NextLimits]_vars

C19_ZeroPeakRejected ==
    (op = "check_max_drawdown" /\ IsZero(args.peak_balance)) =>
        raised = "InvalidInput"

---------------------------------------------------------------------------
\* The correlation filter: filter_correlated_assets on symmetric matrices of
\* three and of four assets, with the correlation_filter flag set either way.

CorrAssets == <<"BTC/USDT", "ETH/USDT", "SOL/USDT", "XRP/USDT">>

\* the index pairs above the diagonal of an n by n matrix
AssetPairs(n) == {p \in (1..n) \X (1..n) : p[1] < p[2]}

\* pd.DataFrame(corr_data, index=assets, columns=assets) for the symmetric
\* corr_data with ones on the diagonal and v above it
CorrelationMatrix(labels, v) ==
    [labels |-> labels,
     corr   |-> [i \in 1..Len(labels) |-> [j \in 1..Len(labels) |->
                    IF i = j THEN R(1)
                    ELSE IF i < j THEN v[<<i, j>>] ELSE v[<<j, i>>]]]]

CorrValues == {<<2, 5>>, <<7, 10>>, <<19, 20>>}

\* the matrices of three assets, and those of four assets where BTC-SOL and
\* ETH-XRP stay at 0.4
CorrMatrices ==
    {Matrix(ab, ac, bc) : ab \in CorrValues, ac \in CorrValues,
                          bc \in CorrValues}
    \cup {CorrelationMatrix(CorrAssets,
              [p \in AssetPairs(4) |->
                  CASE p = <<1, 2>> -> ab
                    [] p = <<2, 3>> -> bc
                    [] p = <<1, 4>> -> ad
                    [] p = <<3, 4>> -> cd
                    [] OTHER -> <<2, 5>>]) :
             ab \in CorrValues, bc \in CorrValues,
             ad \in CorrValues, cd \in CorrValues}

CorrThresholds == {<<7, 10>>, <<1, 2>>}

CorrKwargs ==
    KwargsOver({"correlation_filter"}, [correlation_filter : {FALSE, TRUE}])

NextCorrelation ==
    \/ SetRiskParameters(CorrKwargs)
    \/ FilterCorrelatedAssets(CorrMatrices, CorrThresholds)

SpecCorrelation == Init /\ [][NextCorrelation]_vars

\* C20: filter_correlated_assets returns exactly the unordered pairs of
\* distinct assets whose correlation is strictly greater than the threshold:
\* each such pair once, as (row asset, column asset) with the row above the
\* diagonal, never a pair at exactly the threshold, the pairs ordered by
\* column of the matrix and by row within a column; a matrix with nothing
\* above the threshold gives the empty list.
C20_CorrelatedPairs ==
    op = "filter_correlated_assets" =>
        LET m == args.correlation_matrix
            t == args.threshold
            n == Len(m.labels)
            At(label) == CHOOSE i \in 1..n : m.labels[i] = label
            Row(k) == At(result[k][1])
            Col(k) == At(result[k][2])
        IN  /\ raised = ""
            /\ \A k \in 1..Len(result) :
                   /\ result[k][1] # result[k][2]
                   /\ Row(k) < Col(k)
                   /\ RLt(t, m.corr[Row(k)][Col(k)])
                   /\ m.corr[Row(k)][Col(k)] # t
            /\ \A p \in AssetPairs(n) :
                   RLt(t, m.corr[p[1]][p[2]]) =>
                       Cardinality({k \in 1..Len(result) :
                           {result[k][1], result[k][2]}
                               = {m.labels[p[1]], m.labels[p[2]]}}) = 1
            /\ \A k1, k2 \in 1..Len(result) :
                   k1 < k2 => \/ Col(k1) < Col(k2)
                              \/ Col(k1) = Col(k2) /\ Row(k1) < Row(k2)
            /\ (\A p \in AssetPairs(n) : RLe(m.corr[p[1]][p[2]], t)) =>
                   result = <<>>

\* four assets: a pair of column 3 and a pair of column 4 are returned in
\* that order, the second from an earlier row than the first, and the pair
\* at exactly the threshold is left out
C20_Witness ==
    /\ op = "filter_correlated_assets"
    /\ args.threshold = <<7, 10>>
    /\ Len(args.correlation_matrix.labels) = 4
    /\ args.correlation_matrix.corr[1][2] = <<7, 10>>
    /\ result = << <<"ETH/USDT", "SOL/USDT">>, <<"BTC/USDT", "XRP/USDT">> >>

---------------------------------------------------------------------------
\* Reporting: generate_risk_report on trade histories and open positions of
\* every kind, get_loss_prevention_recommendations on the reports, and the
\* updates of max_open_positions and max_position_size_pct in between.

ReportKwargs ==
    KwargsOver({"max_open_positions", "max_position_size_pct"},
               [max_open_positions : {2, 4}, max_position_size_pct : {R(10)}])

\* the profit_loss of each trade: no trade, a winning history, a losing
\* history, a single win, a single loss, a single trade at break-even
ReportHistories ==
    {<<>>, Rs(<<100, -50, 150>>), Rs(<<-100, -50, 20>>), Rs(<<100>>),
     Rs(<<-100>>), Rs(<<0>>)}

ReportBalances == {R(10000), R(0)}

\* the value of each open position
ReportPositions == {<<>>, Rs(<<5000, 3000>>), Rs(<<2000, 1000, 500>>)}

\* the reports generate_risk_report returns on these
ReportReports ==
    {generate_risk_report(Defaults, t, R(10000), o).ret :
        t \in ReportHistories \ {<<>>}, o \in ReportPositions}

NextReport ==
    \/ SetRiskParameters(ReportKwargs)
    \/ GenerateRiskReport(ReportHistories, ReportBalances, ReportPositions)
    \/ GetLossPreventionRecommendations(ReportReports, SessionConditions)

SpecReport == Init /\ [][NextReport]_vars

\* C21: generate_risk_report on an empty trade history is not an error: it
\* returns a report with win_rate 0, avg_win 0, avg_loss 0, risk_reward
\* +infinity and expectancy 0.
C21_EmptyHistoryReport ==
    (op = "generate_risk_report" /\ args.trades = <<>>
        /\ ~IsZero(args.account_balance)) =>
        /\ raised = ""
        /\ result.win_rate = R(0)
        /\ result.avg_win = R(0)
        /\ result.avg_loss = R(0)
        /\ result.risk_reward = Inf
        /\ result.expectancy = R(0)

\* C22: get_loss_prevention_recommendations evaluates its six conditions
\* independently and appends every applicable advisory in the fixed order
\* exposure > 50, open positions >= max_open_positions, win rate < 40,
\* risk-reward < 1, regime is High Volatility, expectancy < 0: an advisory
\* is in the list exactly when its condition holds, the list follows that
\* order without repetition, and it is empty when no condition holds.
C22_RecommendationsInOrder ==
    op = "get_loss_prevention_recommendations" =>
        LET r == args.risk_report
            Order == <<MsgExposure, MsgPositions, MsgWinRate, MsgRiskReward,
                       MsgVolatility, MsgExpectancy>>
            Applies ==
                <<RLt(R(50), r.exposure_pct),
                  r.open_positions >= params.max_open_positions,
                  RLt(r.win_rate, R(40)),
                  IsNum(r.risk_reward) /\ RLt(r.risk_reward, R(1)),
                  args.market_conditions.market_regime = "High Volatility",
                  RLt(r.expectancy, R(0))>>
            Place(msg) == CHOOSE i \in 1..6 : Order[i] = msg
        IN  /\ raised = ""
            /\ \A k \in 1..Len(result) : \E i \in 1..6 : result[k] = Order[i]
            /\ \A i \in 1..6 :
                   Applies[i] <=> \E k \in 1..Len(result) : result[k] = Order[i]
            /\ \A k1, k2 \in 1..Len(result) :
                   k1 < k2 => Place(result[k1]) < Place(result[k2])
            /\ (\A i \in 1..6 : ~Applies[i]) => result = <<>>

\* all six conditions hold at once, the second through a max_open_positions
\* lowered to 2, and all six advisories are returned
C22_Witness ==
    /\ op = "get_loss_prevention_recommendations"
    /\ params.max_open_positions = 2
    /\ args.risk_report.open_positions = 2
    /\ Len(result) = 6
    /\ result[1] = MsgExposure
    /\ result[6] = MsgExpectancy

\* C24: generate_risk_report is stateless between invocations: what a call
\* returns or raises is what a newly constructed instance gives for the
\* same trades, account_balance and open_positions, whatever calls came
\* before and whatever the risk parameters are.
C24_ReportStateless ==
    op = "generate_risk_report" =>
        LET fresh == generate_risk_report(Defaults, args.trades,
                         args.account_balance, args.open_positions)
        IN  /\ raised = fresh.raised
            /\ result = fresh.ret

\* a report generated after the parameters were changed
C24_Witness ==
    /\ op = "generate_risk_report"
    /\ params.max_position_size_pct # Defaults.max_position_size_pct
    /\ params.max_open_positions # Defaults.max_open_positions
    /\ raised = ""
    /\ result.risk_status = "High Risk"
    /\ result.open_positions = 2

---------------------------------------------------------------------------
\* The re-assessment cycle of verify_complete_solution, run any number of
\* times on one instance: check_market_conditions, then
\* adjust_risk_for_market_conditions on what it returned, then
\* set_risk_parameters with the adjustment as its keywords.

\* the largest number of adjustments committed in one run
MaxCommits == 3

Committed == commits[RiskFactorHigh] + commits[RiskFactorNormal]
                 + commits[RiskFactorTrend]

CycleAssess == CheckMarketConditions(SessionFrames, {20})

CycleAdjust ==
    /\ op = "check_market_conditions"
    /\ raised = ""
    /\ AdjustRiskForMarketConditions({result})

\* loss_prevention.set_risk_parameters(**adjusted_params)
CycleCommit ==
    /\ op = "adjust_risk_for_market_conditions"
    /\ Committed < MaxCommits
    /\ LET outcome == set_risk_parameters(params, result)
       IN  /\ op' = "set_risk_parameters"
           /\ args' = result
           /\ params' = outcome.self
           /\ result' = outcome.ret
           /\ raised' = outcome.raised
    /\ commits' = [commits EXCEPT ![args.market_conditions.risk_factor] = @ + 1]
    /\ UNCHANGED <<pos, thr>>

NextCycle ==
    \/ CycleAssess
    \/ CycleAdjust
    \/ CycleCommit

SpecCycle == Init /\ [][NextCycle]_vars

\* x to the power n
RECURSIVE RPow(_, _)
RPow(x, n) == IF n = 0 THEN R(1) ELSE RMul(x, RPow(x, n - 1))

\* the value of a parameter after the commits counted, when each commit at
\* risk factor f multiplies it by Factor(f)
Compounded(base, Factor(_), counts) ==
    RMul(RMul(base, RPow(Factor(RiskFactorHigh), counts[RiskFactorHigh])),
         RMul(RPow(Factor(RiskFactorNormal), counts[RiskFactorNormal]),
              RPow(Factor(RiskFactorTrend), counts[RiskFactorTrend])))

====
